---- MODULE Spec2Model ----
(***************************************************************************)
(* Model of the sprite generation route and of the projection-based        *)
(* sprite slicer (smartSlice).                                             *)
(*                                                                         *)
(* A bitmap is modelled by its alpha channel only: the slicer never reads  *)
(* the colour channels.  Frames and the final strip are modelled by the    *)
(* sharp operations the code issues (create / extract+resize / composite). *)
(***************************************************************************)
EXTENDS Integers, Sequences, FiniteSets, TLC

VARIABLES
  (* smartSlice *)
  sourceBuffer, info, data, rowHasContent, rowStrips,
  detectedSprites, destFrames, finalStrip, slicePc,
  (* the sorted positions whose extract/resize pipeline sharp rejects *)
  sharpRejects,
  (* POST: which route file serves the request, the environment, the       *)
  (* request body, the handler's locals, the calls made to the image       *)
  (* service with what each returned, and the responses sent               *)
  handler, apiKey, req, attempt, raw, results, responses, pc,
  (* whether the handler has read back the metadata of the strip it made *)
  inspected,
  (* SpriteLab: which component is mounted, its React state, the fetches   *)
  (* awaiting their response, and the name of the last file downloaded     *)
  component, ui, inflight, downloaded

sliceVars == <<sourceBuffer, info, data, rowHasContent, rowStrips,
               detectedSprites, destFrames, finalStrip, slicePc, sharpRejects>>

handlerVars == <<handler, apiKey, req, attempt, raw, results, responses, pc,
                 inspected>>

vars == <<sourceBuffer, info, data, rowHasContent, rowStrips,
          detectedSprites, destFrames, finalStrip, slicePc, sharpRejects,
          handler, apiKey, req, attempt, raw, results, responses, pc,
          inspected, component, ui, inflight, downloaded>>

uiVars == <<component, ui, inflight, downloaded>>

(* no component is mounted *)
Unmounted ==
  /\ component = "none"
  /\ ui = <<>>
  /\ inflight = <<>>
  /\ downloaded = <<>>

----------------------------------------------------------------------------
(* Bounds of the explored inputs *)

MaxStrips == 3
MaxCols == 4
MaxRun == 6

(* Program constants *)

ALPHA_THRESHOLD == 10
MIN_SIZE == 5
ROW_TOLERANCE == 24
NUM_FRAMES == 24
STRIP_WIDTH == 576
STRIP_HEIGHT == 24

----------------------------------------------------------------------------
(* Source pictures.  A picture is a grid of equally sized content cells on *)
(* a uniform background; run lengths and gaps straddle the detector's      *)
(* thresholds.                                                             *)

RunLens == (MIN_SIZE - 1)..MaxRun
RowGaps == {1, 6, 17, 18}
AlphaPairs == {<<0, 255>>, <<10, 11>>, <<255, 255>>}

Pictures ==
  [nStrips : 0..MaxStrips, stripH : RunLens, rowGap : RowGaps,
   nCols : 0..MaxCols, boxW : RunLens, margin : 0..1, hole : BOOLEAN,
   alphas : AlphaPairs]

PicWidth(p) ==
  IF p.nCols = 0 THEN 2 * p.margin + 1
  ELSE 2 * p.margin + p.nCols * (p.boxW + 1) - 1

PicHeight(p) ==
  IF p.nStrips = 0 THEN 2 * p.margin + 1
  ELSE 2 * p.margin + p.nStrips * (p.stripH + p.rowGap) - p.rowGap

PicAlpha(p, x, y) ==
  LET xx == x - p.margin
      yy == y - p.margin
      col == xx \div (p.boxW + 1)
      row == yy \div (p.stripH + p.rowGap)
      inCell == /\ xx >= 0 /\ yy >= 0
                /\ col < p.nCols /\ row < p.nStrips
                /\ xx % (p.boxW + 1) < p.boxW
                /\ yy % (p.stripH + p.rowGap) < p.stripH
                /\ ~(p.hole /\ col = 0 /\ row = 0)
  IN IF inCell THEN p.alphas[2] ELSE p.alphas[1]

(* sharp(sourceBuffer).ensureAlpha().raw().toBuffer(): the decoded alpha   *)
(* channel, row-major, and the image geometry.                             *)
DecodeInfo(p) == [width |-> PicWidth(p), height |-> PicHeight(p), channels |-> 4]

DecodeData(p) ==
  LET w == PicWidth(p)
  IN [i \in 0..(PicWidth(p) * PicHeight(p) - 1) |-> PicAlpha(p, i % w, i \div w)]

----------------------------------------------------------------------------
(* 1. Projections *)

HasContent_inclusive(alpha) == alpha >= ALPHA_THRESHOLD

HasContent(alpha) == alpha > ALPHA_THRESHOLD

RowProjection(d, w, h) ==
  [y \in 0..(h - 1) |-> \E x \in 0..(w - 1) : HasContent(d[y * w + x])]

ColProjection(d, w, strip) ==
  [x \in 0..(w - 1) |->
     \E y \in strip.start..(strip.end - 1) : HasContent(d[y * w + x])]

Significant(len) == len > MIN_SIZE

(* The grouping loop shared by rows and columns: walk positions 0..n-1,    *)
(* open a run on the first has-content position, close it on the first     *)
(* empty one, keep it when significant; a run still open at n is closed    *)
(* at n.                                                                   *)
RECURSIVE GroupRuns(_, _, _, _, _, _)
GroupRuns(has, n, i, inRun, start, acc) ==
  IF i >= n
  THEN IF inRun /\ Significant(n - start)
       THEN Append(acc, [start |-> start, end |-> n])
       ELSE acc
  ELSE IF has[i]
       THEN GroupRuns(has, n, i + 1, TRUE, IF inRun THEN start ELSE i, acc)
       ELSE IF inRun
            THEN GroupRuns(has, n, i + 1, FALSE, start,
                           IF Significant(i - start)
                           THEN Append(acc, [start |-> start, end |-> i])
                           ELSE acc)
            ELSE GroupRuns(has, n, i + 1, FALSE, start, acc)

RowStripsOf(has, h) == GroupRuns(has, h, 0, FALSE, 0, <<>>)

BoxesOfStrip_inclusiveEnd(d, w, strip) ==
  LET runs == GroupRuns(ColProjection(d, w, strip), w, 0, FALSE, 0, <<>>)
  IN [k \in 1..Len(runs) |->
        [x |-> runs[k].start, y |-> strip.start,
         w |-> runs[k].end - runs[k].start + 1, h |-> strip.end - strip.start]]

BoxesOfStrip(d, w, strip) ==
  LET runs == GroupRuns(ColProjection(d, w, strip), w, 0, FALSE, 0, <<>>)
  IN [k \in 1..Len(runs) |->
        [x |-> runs[k].start, y |-> strip.start,
         w |-> runs[k].end - runs[k].start, h |-> strip.end - strip.start]]

RECURSIVE DetectSprites(_, _, _, _)
DetectSprites(d, w, strips, k) ==
  IF k > Len(strips) THEN <<>>
  ELSE BoxesOfStrip(d, w, strips[k]) \o DetectSprites(d, w, strips, k + 1)

----------------------------------------------------------------------------
(* 3. Sort.  The comparator of detectedSprites.sort; centres are compared  *)
(* doubled so that h / 2 stays exact.                                      *)

Abs(n) == IF n < 0 THEN -n ELSE n

SameRow_inclusive(a, b) ==
  Abs((2 * a.y + a.h) - (2 * b.y + b.h)) <= 2 * ROW_TOLERANCE

SameRow(a, b) ==
  Abs((2 * a.y + a.h) - (2 * b.y + b.h)) < 2 * ROW_TOLERANCE

Compare_noTolerance(a, b) == IF a.y = b.y THEN a.x - b.x ELSE a.y - b.y

Compare_rightToLeft(a, b) == IF SameRow(a, b) THEN b.x - a.x ELSE a.y - b.y

Compare(a, b) == IF SameRow(a, b) THEN a.x - b.x ELSE a.y - b.y

(* Array.prototype.sort as the runtime executes it for arrays shorter than *)
(* 64 elements: the leading run is counted (and reversed when strictly     *)
(* descending), then the rest is inserted by binary insertion.             *)
RECURSIVE RunEnd(_, _, _)
RunEnd(s, idx, desc) ==
  IF idx > Len(s) THEN Len(s)
  ELSE LET order == Compare(s[idx], s[idx - 1])
       IN IF desc
          THEN IF order >= 0 THEN idx - 1 ELSE RunEnd(s, idx + 1, desc)
          ELSE IF order < 0 THEN idx - 1 ELSE RunEnd(s, idx + 1, desc)

ReversePrefix(s, n) ==
  [i \in 1..Len(s) |-> IF i <= n THEN s[n + 1 - i] ELSE s[i]]

RECURSIVE BinarySearch(_, _, _, _)
BinarySearch(s, pivot, left, right) ==
  IF left >= right THEN left
  ELSE LET mid == left + ((right - left) \div 2)
       IN IF Compare(pivot, s[mid]) < 0
          THEN BinarySearch(s, pivot, left, mid)
          ELSE BinarySearch(s, pivot, mid + 1, right)

RECURSIVE BinaryInsertionSort(_, _)
BinaryInsertionSort(s, start) ==
  IF start > Len(s) THEN s
  ELSE LET pivot == s[start]
           left == BinarySearch(s, pivot, 1, start)
           moved == [i \in 1..Len(s) |->
                       IF i < left \/ i > start THEN s[i]
                       ELSE IF i = left THEN pivot ELSE s[i - 1]]
       IN BinaryInsertionSort(moved, start + 1)

SortSprites(s) ==
  IF Len(s) < 2 THEN s
  ELSE LET desc == Compare(s[2], s[1]) < 0
           run == RunEnd(s, 3, desc)
           made == IF desc THEN ReversePrefix(s, run) ELSE s
       IN BinaryInsertionSort(made, run + 1)

----------------------------------------------------------------------------
(* 4. Mapping and stitching *)

Null == [kind |-> "null", left |-> 0, top |-> 0, width |-> 0, height |-> 0,
         outW |-> 0, outH |-> 0, background |-> 0]

(* sharp({create: {width: 24, height: 24, channels: 4, alpha: 0}}) *)
blank == [kind |-> "create", left |-> 0, top |-> 0, width |-> 24,
          height |-> 24, outW |-> 24, outH |-> 24, background |-> 0]

ExtractOk(left, top, w, h, inf) ==
  /\ left >= 0 /\ top >= 0 /\ w > 0 /\ h > 0
  /\ left + w <= inf.width /\ top + h <= inf.height

Max(a, b) == IF a > b THEN a ELSE b
Min(a, b) == IF a < b THEN a ELSE b

(* the catch block of processSprite: log the box, return the blank frame *)
CaughtFrame_ignoreError(box) ==
  [kind |-> "extract", left |-> box.x, top |-> box.y,
   width |-> box.w, height |-> box.h,
   outW |-> 24, outH |-> 24, background |-> 0]

CaughtFrame(box) == blank

(* extract the clamped region, resize to 24x24 (contain, nearest); any     *)
(* failure of the pipeline (a bad extract area, or sharp rejecting for a   *)
(* reason of its own) is caught and yields the blank frame.                *)
processSprite(box, inf, rejected) ==
  LET safeX == Max(0, box.x)
      safeY == Max(0, box.y)
      safeW == Min(inf.width - safeX, box.w)
      safeH == Min(inf.height - safeY, box.h)
  IN IF ExtractOk(safeX, safeY, safeW, safeH, inf) /\ ~rejected
     THEN [kind |-> "extract", left |-> safeX, top |-> safeY,
           width |-> safeW, height |-> safeH,
           outW |-> 24, outH |-> 24, background |-> 0]
     ELSE CaughtFrame(box)

walkStartIndexStr_skipNone == 5 - 1

walkStartIndexStr == 5

(* the frame of a slot whose source position does not exist *)
Fallback_loopLast(sprites, inf) ==
  IF Len(sprites) > 0
  THEN processSprite(sprites[Len(sprites)], inf, FALSE)
  ELSE blank

Fallback(sprites, inf) == blank

(* detectedSprites[i] of the code, 0-based; FALSE stands for undefined *)
HasSprite(sprites, i) == i + 1 <= Len(sprites)

IdleSource(i) == i
WalkSource(i) == walkStartIndexStr + i

MapIdle(frames, sprites, inf, rejects) ==
  [s \in 0..(NUM_FRAMES - 1) |->
     IF s < 4
     THEN IF HasSprite(sprites, IdleSource(s))
          THEN processSprite(sprites[IdleSource(s) + 1], inf,
                             IdleSource(s) \in rejects)
          ELSE Fallback(sprites, inf)
     ELSE frames[s]]

MapWalk(frames, sprites, inf, rejects) ==
  [s \in 0..(NUM_FRAMES - 1) |->
     IF s >= 4 /\ s < 4 + 6
     THEN IF HasSprite(sprites, WalkSource(s - 4))
          THEN processSprite(sprites[WalkSource(s - 4) + 1], inf,
                             WalkSource(s - 4) \in rejects)
          ELSE Fallback(sprites, inf)
     ELSE frames[s]]

FillRemaining_loopLast(frames) ==
  [s \in 0..(NUM_FRAMES - 1) |-> IF s >= 10 THEN frames[9] ELSE frames[s]]

FillRemaining(frames) ==
  [s \in 0..(NUM_FRAMES - 1) |-> IF s >= 10 THEN blank ELSE frames[s]]

OpLeft_offByOne(idx) == idx * 23

OpLeft(idx) == idx * 24
OpTop(idx) == 0

compositeOps(frames) ==
  [idx \in 0..(NUM_FRAMES - 1) |->
     [input |-> IF frames[idx] = Null THEN blank ELSE frames[idx],
      left |-> OpLeft(idx), top |-> OpTop(idx)]]

(* sharp({create: 576x24, alpha 0}).composite(compositeOps).png() *)
Stitch(frames) ==
  [width |-> STRIP_WIDTH, height |-> STRIP_HEIGHT, background |-> 0,
   ops |-> compositeOps(frames)]

NullFrames == [s \in 0..(NUM_FRAMES - 1) |-> Null]

(* smartSlice as one function of the decoded picture *)
SmartSlice(p) ==
  LET inf == DecodeInfo(p)
      d == DecodeData(p)
      strips == RowStripsOf(RowProjection(d, inf.width, inf.height), inf.height)
      sorted == SortSprites(DetectSprites(d, inf.width, strips, 1))
  IN Stitch(FillRemaining(MapWalk(MapIdle(NullFrames, sorted, inf, {}),
                                  sorted, inf, {})))

----------------------------------------------------------------------------
(* smartSlice, stage by stage *)

NoInfo == [width |-> 0, height |-> 0, channels |-> 0]
NoStrip == [width |-> 0, height |-> 0, background |-> 0, ops |-> <<>>]

SliceInit ==
  /\ sourceBuffer \in Pictures
  /\ info = NoInfo
  /\ data = <<>>
  /\ rowHasContent = <<>>
  /\ rowStrips = <<>>
  /\ detectedSprites = <<>>
  /\ destFrames = NullFrames
  /\ finalStrip = NoStrip
  /\ slicePc = "decode"
  /\ sharpRejects = {}
  /\ handler = "none" /\ apiKey = FALSE /\ req = <<>> /\ attempt = 0
  /\ raw = <<>> /\ results = <<>> /\ responses = <<>> /\ pc = "idle"
  /\ inspected = FALSE
  /\ Unmounted

Decode ==
  /\ slicePc = "decode"
  /\ info' = DecodeInfo(sourceBuffer)
  /\ data' = DecodeData(sourceBuffer)
  /\ slicePc' = IF info'.channels # 4 THEN "thrown" ELSE "rows"
  /\ UNCHANGED <<sourceBuffer, rowHasContent, rowStrips, detectedSprites,
                 destFrames, finalStrip>>
  /\ UNCHANGED <<sharpRejects, handlerVars, uiVars>>

ProjectRows ==
  /\ slicePc = "rows"
  /\ rowHasContent' = RowProjection(data, info.width, info.height)
  /\ slicePc' = "strips"
  /\ UNCHANGED <<sourceBuffer, info, data, rowStrips, detectedSprites,
                 destFrames, finalStrip>>
  /\ UNCHANGED <<sharpRejects, handlerVars, uiVars>>

GroupRows ==
  /\ slicePc = "strips"
  /\ rowStrips' = RowStripsOf(rowHasContent, info.height)
  /\ slicePc' = "columns"
  /\ UNCHANGED <<sourceBuffer, info, data, rowHasContent, detectedSprites,
                 destFrames, finalStrip>>
  /\ UNCHANGED <<sharpRejects, handlerVars, uiVars>>

ProjectColumns ==
  /\ slicePc = "columns"
  /\ detectedSprites' = DetectSprites(data, info.width, rowStrips, 1)
  /\ slicePc' = "sort"
  /\ UNCHANGED <<sourceBuffer, info, data, rowHasContent, rowStrips,
                 destFrames, finalStrip>>
  /\ UNCHANGED <<sharpRejects, handlerVars, uiVars>>

Sort ==
  /\ slicePc = "sort"
  /\ detectedSprites' = SortSprites(detectedSprites)
  /\ slicePc' = "idle"
  /\ UNCHANGED <<sourceBuffer, info, data, rowHasContent, rowStrips,
                 destFrames, finalStrip>>
  /\ UNCHANGED <<sharpRejects, handlerVars, uiVars>>

Idle ==
  /\ slicePc = "idle"
  /\ destFrames' = MapIdle(destFrames, detectedSprites, info, sharpRejects)
  /\ slicePc' = "walk"
  /\ UNCHANGED <<sourceBuffer, info, data, rowHasContent, rowStrips,
                 detectedSprites, finalStrip>>
  /\ UNCHANGED <<sharpRejects, handlerVars, uiVars>>

Walk ==
  /\ slicePc = "walk"
  /\ destFrames' = MapWalk(destFrames, detectedSprites, info, sharpRejects)
  /\ slicePc' = "fill"
  /\ UNCHANGED <<sourceBuffer, info, data, rowHasContent, rowStrips,
                 detectedSprites, finalStrip>>
  /\ UNCHANGED <<sharpRejects, handlerVars, uiVars>>

Fill ==
  /\ slicePc = "fill"
  /\ destFrames' = FillRemaining(destFrames)
  /\ slicePc' = "stitch"
  /\ UNCHANGED <<sourceBuffer, info, data, rowHasContent, rowStrips,
                 detectedSprites, finalStrip>>
  /\ UNCHANGED <<sharpRejects, handlerVars, uiVars>>

StitchStrip ==
  /\ slicePc = "stitch"
  /\ finalStrip' = Stitch(destFrames)
  /\ slicePc' = "done"
  /\ UNCHANGED <<sourceBuffer, info, data, rowHasContent, rowStrips,
                 detectedSprites, destFrames>>
  /\ UNCHANGED <<sharpRejects, handlerVars, uiVars>>

SliceNext ==
  \/ Decode
  \/ ProjectRows
  \/ GroupRows
  \/ ProjectColumns
  \/ Sort
  \/ Idle
  \/ Walk
  \/ Fill
  \/ StitchStrip

SliceSpec == SliceInit /\ [][SliceNext]_vars

(* smartSlice in an environment where sharp may reject the pipeline of     *)
(* single boxes: an idle one, a walk one, or both                          *)
RejectChoices == {{}, {1}, {6}, {1, 6}}

FaultPictures ==
  {p \in Pictures : p.margin = 0 /\ ~p.hole /\ p.alphas = <<0, 255>>}

FaultInit ==
  /\ sourceBuffer \in FaultPictures
  /\ sharpRejects \in RejectChoices
  /\ info = NoInfo
  /\ data = <<>>
  /\ rowHasContent = <<>>
  /\ rowStrips = <<>>
  /\ detectedSprites = <<>>
  /\ destFrames = NullFrames
  /\ finalStrip = NoStrip
  /\ slicePc = "decode"
  /\ handler = "none" /\ apiKey = FALSE /\ req = <<>> /\ attempt = 0
  /\ raw = <<>> /\ results = <<>> /\ responses = <<>> /\ pc = "idle"
  /\ inspected = FALSE
  /\ Unmounted

FaultSpec == FaultInit /\ [][SliceNext]_vars

----------------------------------------------------------------------------
(* The request handlers.  "sheetRoute" is POST of the mode-aware route     *)
(* (concept / sheet, slicing with smartSlice); "stripRoute" is POST of     *)
(* route.ts (single strip, forced to 576x24).                              *)

Undefined == "<undefined>"

Truthy_emptyString(v) == v # Undefined

(* JavaScript truthiness of a body field: absent and "" are falsy *)
Truthy(v) == v \notin {Undefined, ""}

(* type CharacterName; the body may also carry no name, an empty one, or   *)
(* one outside the type                                                    *)
CharacterNames == {"doux", "mort", "targ", "vita"}

Names == CharacterNames \cup {Undefined, "", "zed"}
Prompts == {Undefined, "", "astronaut"}
Modes == {Undefined, "concept", "sheet", "grid"}

Requests == [valid : BOOLEAN, name : Names, prompt : Prompts, mode : Modes]

(* pictures the image service may return: a sheet on a transparent         *)
(* background, a faint one, and a fully opaque one                         *)
ServicePictures ==
  {p \in Pictures : /\ p.nStrips = 2 /\ p.nCols = 2
                    /\ p.stripH = MaxRun /\ p.boxW \in {MaxRun - 1, MaxRun}
                    /\ p.rowGap = 1 /\ p.margin = 0 /\ ~p.hole}

(* what one call of the image service can produce: a non-2xx status, a     *)
(* payload without data[0].b64_json, bytes that are no image, or a picture *)
ServiceResults ==
  {[kind |-> "status", pic |-> <<>>], [kind |-> "nob64", pic |-> <<>>],
   [kind |-> "garbage", pic |-> <<>>]}
  \cup {[kind |-> "png", pic |-> p] : p \in ServicePictures}

hasAnyTransparency(p) ==
  LET d == DecodeData(p) IN \E k \in DOMAIN d : d[k] < 255

(* the frame key `${col}_${name}` *)
FrameKey(col, name) == <<col, name>>

atlasDataGenerator_walkFromFive(name, scale) ==
  [frames |-> [key \in {FrameKey(col, name) : col \in 0..23} |->
                 [frame |-> [x |-> key[1] * 24, y |-> 0, w |-> 24, h |-> 24],
                  sourceSize |-> [w |-> 24, h |-> 24],
                  spriteSourceSize |-> [x |-> 0, y |-> 0, w |-> 24, h |-> 24]]],
   meta |-> [image |-> name, format |-> "RGBA8888",
             size |-> [w |-> 576, h |-> 24], scale |-> scale],
   animations |-> [walk |-> [k \in 1..6 |-> FrameKey(k + 4, name)],
                   idle |-> [k \in 1..4 |-> FrameKey(k - 1, name)]]]

(* frames is the object built by the loop over col, one property per key *)
atlasDataGenerator(name, scale) ==
  [frames |-> [key \in {FrameKey(col, name) : col \in 0..23} |->
                 [frame |-> [x |-> key[1] * 24, y |-> 0, w |-> 24, h |-> 24],
                  sourceSize |-> [w |-> 24, h |-> 24],
                  spriteSourceSize |-> [x |-> 0, y |-> 0, w |-> 24, h |-> 24]]],
   meta |-> [image |-> name, format |-> "RGBA8888",
             size |-> [w |-> 576, h |-> 24], scale |-> scale],
   animations |-> [walk |-> [k \in 1..6 |-> FrameKey(k + 3, name)],
                   idle |-> [k \in 1..4 |-> FrameKey(k - 1, name)]]]

resizeTo128(p) == [kind |-> "resize", width |-> 128, height |-> 128, of |-> p]

forceTo576x24(p) == [kind |-> "resize", width |-> 576, height |-> 24, of |-> p]

Base64(x) == <<"base64", x>>

ErrorResponse(status, msg) == [status |-> status, body |-> [error |-> msg]]

CheckedAttempts_three == 2 + 1

CheckedAttempts == 2

StripAttempts == 3

modeVal_defaultConcept == IF req.mode = "sheet" THEN "sheet" ELSE "concept"

modeVal == IF req.mode = "concept" THEN "concept" ELSE "sheet"

Init ==
  /\ handler \in {"sheetRoute", "stripRoute"}
  /\ apiKey \in BOOLEAN
  /\ req \in Requests
  /\ attempt = 0
  /\ raw = <<>>
  /\ results = <<>>
  /\ responses = <<>>
  /\ pc = "start"
  /\ inspected = FALSE
  /\ Unmounted
  /\ sharpRejects = {}
  /\ sourceBuffer = <<>> /\ info = NoInfo /\ data = <<>>
  /\ rowHasContent = <<>> /\ rowStrips = <<>> /\ detectedSprites = <<>>
  /\ destFrames = NullFrames /\ finalStrip = NoStrip /\ slicePc = "off"

Respond(r) ==
  /\ responses' = Append(responses, r)
  /\ pc' = "done"

Catch_noStatus(msg) == Respond([status |-> 200, body |-> [error |-> msg]])

(* the catch block of POST *)
Catch(msg) == Respond(ErrorResponse(500, msg))

(* sheetRoute: parse the body, reject a missing prompt *)
POST_Begin ==
  /\ handler = "sheetRoute" /\ pc = "start"
  /\ IF ~req.valid THEN Catch("invalid body")
     ELSE IF ~Truthy(req.prompt)
          THEN Respond(ErrorResponse(400, "Missing prompt"))
          ELSE pc' = "loop" /\ UNCHANGED responses
  /\ UNCHANGED <<handler, apiKey, req, attempt, raw, results, inspected>>
  /\ UNCHANGED <<sliceVars, uiVars>>

(* stripRoute: parse the body, reject a missing name or prompt *)
StripPOST_Begin ==
  /\ handler = "stripRoute" /\ pc = "start"
  /\ IF ~req.valid THEN Catch("invalid body")
     ELSE IF ~Truthy(req.name) \/ ~Truthy(req.prompt)
          THEN Respond(ErrorResponse(400, "Missing name or prompt"))
          ELSE pc' = "loop" /\ UNCHANGED responses
  /\ UNCHANGED <<handler, apiKey, req, attempt, raw, results, inspected>>
  /\ UNCHANGED <<sliceVars, uiVars>>

(* one iteration of the retry loop of sheetRoute: openaiGenerateImage,     *)
(* then hasAnyTransparency on what it returned                             *)
POST_Attempt ==
  /\ handler = "sheetRoute" /\ pc = "loop" /\ attempt < CheckedAttempts
  /\ IF ~apiKey
     THEN Catch("Missing OPENAI_API_KEY") /\ UNCHANGED <<attempt, raw, results>>
     ELSE \E r \in ServiceResults :
            /\ results' = Append(results, r)
            /\ CASE r.kind = "status" ->
                      Catch("OpenAI error") /\ UNCHANGED <<attempt, raw>>
                 [] r.kind = "nob64" ->
                      Catch("No b64_json returned") /\ UNCHANGED <<attempt, raw>>
                 [] r.kind = "garbage" ->
                      Catch("unsupported image format") /\ UNCHANGED <<attempt, raw>>
                 [] r.kind = "png" ->
                      IF hasAnyTransparency(r.pic)
                      THEN /\ raw' = r /\ pc' = "process"
                           /\ UNCHANGED <<attempt, responses>>
                      ELSE /\ attempt' = attempt + 1
                           /\ UNCHANGED <<raw, responses, pc>>
  /\ UNCHANGED <<handler, apiKey, req, inspected>>
  /\ UNCHANGED <<sliceVars, uiVars>>

(* sheetRoute after the loop: if (!raw) raw = await openaiGenerateImage()  *)
POST_LastAttempt ==
  /\ handler = "sheetRoute" /\ pc = "loop" /\ attempt >= CheckedAttempts
  /\ raw = <<>>
  /\ IF ~apiKey
     THEN Catch("Missing OPENAI_API_KEY") /\ UNCHANGED <<raw, results>>
     ELSE \E r \in ServiceResults :
            /\ results' = Append(results, r)
            /\ CASE r.kind = "status" ->
                      Catch("OpenAI error") /\ UNCHANGED raw
                 [] r.kind = "nob64" ->
                      Catch("No b64_json returned") /\ UNCHANGED raw
                 [] OTHER ->
                      raw' = r /\ pc' = "process" /\ UNCHANGED responses
  /\ UNCHANGED <<handler, apiKey, req, attempt, inspected>>
  /\ UNCHANGED <<sliceVars, uiVars>>

(* sheetRoute: preview in concept mode, smartSlice and atlas in sheet mode *)
POST_Process ==
  /\ handler = "sheetRoute" /\ pc = "process"
  /\ IF raw.kind = "garbage" THEN Catch("unsupported image format")
     ELSE IF modeVal = "concept"
          THEN Respond([status |-> 200,
                        body |-> [mode |-> "concept",
                                  pngBase64 |-> Base64(resizeTo128(raw.pic))]])
          ELSE Respond([status |-> 200,
                        body |-> [mode |-> "sheet",
                                  name |-> req.name,
                                  pngBase64 |-> Base64(SmartSlice(raw.pic)),
                                  metadata |->
                                    IF Truthy(req.name)
                                    THEN atlasDataGenerator(req.name, "1")
                                    ELSE <<>>]])
  /\ UNCHANGED <<handler, apiKey, req, attempt, raw, results, inspected>>
  /\ UNCHANGED <<sliceVars, uiVars>>

(* one iteration of the retry loop of stripRoute; the loop ends without a  *)
(* picture after the third opaque result, and the handler throws           *)
StripPOST_Attempt ==
  /\ handler = "stripRoute" /\ pc = "loop" /\ attempt < StripAttempts
  /\ IF ~apiKey
     THEN Catch("Missing OPENAI_API_KEY") /\ UNCHANGED <<attempt, raw, results>>
     ELSE \E r \in ServiceResults :
            /\ results' = Append(results, r)
            /\ CASE r.kind = "status" ->
                      Catch("OpenAI image gen failed") /\ UNCHANGED <<attempt, raw>>
                 [] r.kind = "nob64" ->
                      Catch("OpenAI returned no b64_json") /\ UNCHANGED <<attempt, raw>>
                 [] r.kind = "garbage" ->
                      Catch("unsupported image format") /\ UNCHANGED <<attempt, raw>>
                 [] r.kind = "png" ->
                      IF hasAnyTransparency(r.pic)
                      THEN /\ raw' = r /\ pc' = "process"
                           /\ UNCHANGED <<attempt, responses>>
                      ELSE /\ attempt' = attempt + 1
                           /\ UNCHANGED raw
                           /\ IF attempt + 1 < StripAttempts
                              THEN UNCHANGED <<responses, pc>>
                              ELSE Catch("OpenAI did not return a transparent PNG after 3 attempts.")
  /\ UNCHANGED <<handler, apiKey, req, inspected>>
  /\ UNCHANGED <<sliceVars, uiVars>>

(* stripRoute: force the picture to 576x24 and answer with the atlas *)
StripPOST_Process ==
  /\ handler = "stripRoute" /\ pc = "process"
  /\ LET finalPng == forceTo576x24(raw.pic)
     IN IF finalPng.width # 576 \/ finalPng.height # 24
        THEN Catch("Size mismatch")
        ELSE Respond([status |-> 200,
                      body |-> [name |-> req.name,
                                pngBase64 |-> Base64(finalPng),
                                metadata |-> atlasDataGenerator(req.name, "0.32")]])
  /\ inspected' = TRUE
  /\ UNCHANGED <<handler, apiKey, req, attempt, raw, results>>
  /\ UNCHANGED <<sliceVars, uiVars>>

Next ==
  \/ POST_Begin
  \/ POST_Attempt
  \/ POST_LastAttempt
  \/ POST_Process
  \/ StripPOST_Begin
  \/ StripPOST_Attempt
  \/ StripPOST_Process

Spec == Init /\ [][Next]_vars

----------------------------------------------------------------------------
(* Properties of smartSlice *)

Slots == 0..(NUM_FRAMES - 1)

(* the frame in a slot is the 24x24 rendering of exactly this box *)
FrameShows(frame, box) ==
  /\ frame.kind = "extract"
  /\ frame.left = box.x /\ frame.top = box.y
  /\ frame.width = box.w /\ frame.height = box.h

IsBlankFrame(frame) ==
  /\ frame.kind = "create" /\ frame.background = 0
  /\ frame.outW = 24 /\ frame.outH = 24

SlotInput(i) == finalStrip.ops[i].input

(* 0-based sorted position k of the detected boxes *)
SortedBox(k) == detectedSprites[k + 1]
SortedPositions == 0..(Len(detectedSprites) - 1)

(* C1: the returned strip is 576x24 and consists of 24 frames of 24x24,    *)
(* frame i at left = i*24, top = 0; every pixel column of the strip is     *)
(* covered by exactly one frame (no overlap, no gap).                      *)
C1_StripLayout ==
  slicePc = "done" =>
    /\ finalStrip.width = 576 /\ finalStrip.height = 24
    /\ DOMAIN finalStrip.ops = 0..23
    /\ \A i \in 0..23 :
         /\ finalStrip.ops[i].left = i * 24
         /\ finalStrip.ops[i].top = 0
         /\ SlotInput(i).outW = 24 /\ SlotInput(i).outH = 24
    /\ \A x \in 0..575 :
         Cardinality({i \in DOMAIN finalStrip.ops :
                        /\ finalStrip.ops[i].left <= x
                        /\ x < finalStrip.ops[i].left + SlotInput(i).outW}) = 1

C1_Witness ==
  /\ slicePc = "done"
  /\ Len(detectedSprites) >= 2
  /\ SlotInput(1).kind = "extract"

(* C2: sorted positions 0..3 fill slots 0..3, sorted positions 5..10 fill  *)
(* slots 4..9, and the boxes at position 4 and at positions >= 11 are in   *)
(* no slot, for any number of detected boxes.                              *)
C2_FixedMapping ==
  slicePc = "done" =>
    /\ \A k \in SortedPositions :
         /\ k \in 0..3 => FrameShows(SlotInput(k), SortedBox(k))
         /\ k \in 5..10 => FrameShows(SlotInput(k - 1), SortedBox(k))
         /\ (k = 4 \/ k >= 11) =>
              \A i \in Slots : ~FrameShows(SlotInput(i), SortedBox(k))

C2_Witness ==
  /\ slicePc = "done"
  /\ Len(detectedSprites) >= 12
  /\ FrameShows(SlotInput(9), SortedBox(10))

(* C3: slots 10..23 of the strip are fully transparent blank frames, also  *)
(* when more than 11 boxes were detected.                                  *)
C3_PaddingBlank ==
  slicePc = "done" => \A i \in 10..23 : IsBlankFrame(SlotInput(i))

C3_Witness ==
  /\ slicePc = "done"
  /\ Len(detectedSprites) > 11
  /\ IsBlankFrame(SlotInput(10))

(* the sorted position a slot of the idle/walk range takes its box from *)
SourceOfSlot(i) == IF i < 4 THEN i ELSE i + 1

(* C4: with 0..10 detected boxes smartSlice does not throw; an idle/walk   *)
(* slot whose source position is missing holds the blank frame, every      *)
(* other idle/walk slot holds its own box, and no box is in two slots.     *)
C4_GracefulDegradation ==
  /\ Len(detectedSprites) <= 10 => slicePc # "thrown"
  /\ (slicePc = "done" /\ Len(detectedSprites) <= 10) =>
       /\ \A i \in 0..9 :
            IF SourceOfSlot(i) \in SortedPositions
            THEN FrameShows(SlotInput(i), SortedBox(SourceOfSlot(i)))
            ELSE IsBlankFrame(SlotInput(i))
       /\ \A k \in SortedPositions :
            Cardinality({i \in Slots : FrameShows(SlotInput(i), SortedBox(k))}) <= 1

C4_Witness ==
  /\ slicePc = "done"
  /\ Len(detectedSprites) = 7
  /\ FrameShows(SlotInput(5), SortedBox(6))
  /\ IsBlankFrame(SlotInput(6))

NoContentPixel == \A i \in DOMAIN data : data[i] <= 10

(* C5: a picture without any pixel above the content threshold yields no   *)
(* row strip and no box; smartSlice does not throw and returns a 576x24    *)
(* strip whose 24 slots are all blank.                                     *)
C5_EmptyPicture ==
  (slicePc # "decode" /\ NoContentPixel) =>
    /\ slicePc # "thrown"
    /\ rowStrips = <<>>
    /\ detectedSprites = <<>>
    /\ slicePc = "done" =>
         /\ finalStrip.width = 576 /\ finalStrip.height = 24
         /\ finalStrip.background = 0
         /\ \A i \in 0..23 : IsBlankFrame(SlotInput(i))

C5_Witness ==
  /\ slicePc = "done"
  /\ NoContentPixel
  /\ info.height > 5
  /\ \E i \in DOMAIN data : data[i] = 10

(* the picture is transparent except for two opaque squares of side        *)
(* `side' on the same rows, one transparent column apart                   *)
TwoSquares(side) ==
  /\ side > 5
  /\ \A i \in DOMAIN data :
       LET x == i % info.width
           y == i \div info.width
           m == sourceBuffer.margin
           inRows == y >= m /\ y < m + side
           inLeft == x >= m /\ x < m + side
           inRight == x >= m + side + 1 /\ x < m + 2 * side + 1
       IN data[i] = IF inRows /\ (inLeft \/ inRight) THEN 255 ELSE 0
  /\ info.width = 2 * sourceBuffer.margin + 2 * side + 1
  /\ info.height = 2 * sourceBuffer.margin + side

LeftSquare(side) ==
  [x |-> sourceBuffer.margin, y |-> sourceBuffer.margin, w |-> side, h |-> side]

RightSquare(side) ==
  [x |-> sourceBuffer.margin + side + 1, y |-> sourceBuffer.margin,
   w |-> side, h |-> side]

(* C6: for two equal opaque squares side by side the detector yields       *)
(* exactly 2 boxes, the left one sorted first; the left square is in slot  *)
(* 0, the right one in slot 1, and slots 2..23 are blank.                  *)
C6_TwoSquares ==
  \A side \in RunLens :
    (slicePc = "done" /\ TwoSquares(side)) =>
      /\ Len(detectedSprites) = 2
      /\ detectedSprites[1] = LeftSquare(side)
      /\ detectedSprites[2] = RightSquare(side)
      /\ FrameShows(SlotInput(0), LeftSquare(side))
      /\ FrameShows(SlotInput(1), RightSquare(side))
      /\ \A i \in 2..23 : IsBlankFrame(SlotInput(i))

C6_Witness ==
  /\ slicePc = "done"
  /\ TwoSquares(6)
  /\ FrameShows(SlotInput(1), RightSquare(6))

----------------------------------------------------------------------------
(* Properties of the request handlers *)

Opaque(r) == r.kind = "png" /\ ~hasAnyTransparency(r.pic)
Transparent(r) == r.kind = "png" /\ hasAnyTransparency(r.pic)

(* the attempts whose result the handler tests with hasAnyTransparency *)
CheckedCalls == IF handler = "sheetRoute" THEN 1..2 ELSE 1..3

Succeeded ==
  /\ pc = "done" /\ Len(responses) = 1
  /\ responses[1].status = 200
  /\ "error" \notin DOMAIN responses[1].body
  /\ "pngBase64" \in DOMAIN responses[1].body

(* C7: at most 3 calls of the image service per request; a call is         *)
(* followed by another one only if it and all earlier ones returned a      *)
(* fully opaque picture; a checked attempt that returns a picture with     *)
(* some alpha < 255 is the last call and its picture is the one processed. *)
C7_BoundedRetry ==
  /\ Len(results) <= 3
  /\ \A k \in 1..(Len(results) - 1) : Opaque(results[k])
  /\ \A k \in 1..Len(results) :
       (k \in CheckedCalls /\ Transparent(results[k])) =>
          /\ k = Len(results)
          /\ raw = results[k]
          /\ pc \in {"process", "done"}
          /\ pc = "done" => Succeeded

C7_Witness ==
  /\ pc = "done"
  /\ Len(results) = 2
  /\ Opaque(results[1])
  /\ Transparent(results[2])
  /\ raw = results[2]
  /\ Succeeded

AllOpaque == \A k \in 1..Len(results) : Opaque(results[k])

(* C8: when every attempt returns a fully opaque picture the request does  *)
(* not fail: once the retry budget (3 calls) is used up, the last picture  *)
(* obtained is processed and a success response is returned.               *)
C8_BestEffort ==
  (pc = "done" /\ Len(results) = 3 /\ AllOpaque) =>
     /\ raw = results[3]
     /\ Succeeded

(* C9: a request without prompt (absent or empty) gets HTTP 400 with       *)
(* { error: "Missing prompt" }, whatever mode and name are, and the image  *)
(* service is not called.                                                  *)
C9_MissingPrompt ==
  (pc = "done" /\ req.valid /\ ~Truthy(req.prompt)) =>
     /\ responses = <<ErrorResponse(400, "Missing prompt")>>
     /\ results = <<>>

PassedValidation ==
  /\ req.valid /\ Truthy(req.prompt)
  /\ handler = "stripRoute" => Truthy(req.name)

(* a failure has been raised while handling the request *)
Failed ==
  \/ PassedValidation /\ ~apiKey
  \/ \E k \in 1..Len(results) : results[k].kind \in {"status", "nob64"}
  \/ \E k \in 1..Len(results) : results[k].kind = "garbage" /\ k \in CheckedCalls
  \/ raw # <<>> /\ raw.kind = "garbage" /\ pc = "done"
  \/ handler = "stripRoute" /\ Len(results) = 3 /\ AllOpaque

IsError500(r) ==
  /\ r.status = 500
  /\ DOMAIN r.body = {"error"}
  /\ Truthy(r.body.error)

(* C10: every failure raised while handling a request with a prompt        *)
(* (missing credential, non-success status or missing image data on any    *)
(* attempt, error while processing the picture) ends the request with      *)
(* exactly one response, HTTP 500 with an error message; no success body   *)
(* is returned after a failure.                                            *)
C10_FailuresAre500 ==
  /\ Len(responses) <= 1
  /\ (Failed /\ Truthy(req.prompt)) =>
       \/ pc = "done" /\ Len(responses) = 1 /\ IsError500(responses[1])
       \/ pc = "loop" /\ ~apiKey /\ responses = <<>>
       \/ pc = "start" /\ ~apiKey /\ responses = <<>>

C10_Witness ==
  /\ pc = "done"
  /\ handler = "sheetRoute"
  /\ Len(results) = 3
  /\ results[3].kind = "nob64"
  /\ IsError500(responses[1])

SheetRouteSucceeded == handler = "sheetRoute" /\ Succeeded

Body == responses[1].body

(* C11: the mode-aware handler is in concept mode only for mode =          *)
(* "concept" and in sheet mode for an absent or any other mode; a concept  *)
(* success carries only mode "concept" and the 128x128 preview of the raw  *)
(* picture (no slicer output, no name, no metadata); a sheet success       *)
(* carries the output of smartSlice on the raw picture.                    *)
C11_ModeSelection ==
  SheetRouteSucceeded =>
    IF req.mode = "concept"
    THEN /\ DOMAIN Body = {"mode", "pngBase64"}
         /\ Body.mode = "concept"
         /\ Body.pngBase64 = Base64(resizeTo128(raw.pic))
         /\ Body.pngBase64 # Base64(SmartSlice(raw.pic))
    ELSE /\ Body.mode = "sheet"
         /\ Body.pngBase64 = Base64(SmartSlice(raw.pic))

C11_Witness ==
  /\ SheetRouteSucceeded
  /\ req.mode = "grid"
  /\ Body.mode = "sheet"
  /\ Body.pngBase64 = Base64(SmartSlice(raw.pic))

IsStrip576x24(png) ==
  /\ png[1] = "base64"
  /\ png[2].width = 576 /\ png[2].height = 24

(* a complete atlas descriptor for this name: 24 frame entries and the     *)
(* walk and idle animations                                                *)
CompleteAtlas(m, name) ==
  /\ DOMAIN m = {"frames", "meta", "animations"}
  /\ DOMAIN m.frames = {FrameKey(col, name) : col \in 0..23}
  /\ Cardinality(DOMAIN m.frames) = 24
  /\ Len(m.animations.walk) = 6
  /\ Len(m.animations.idle) = 4

HasAtlas ==
  /\ Succeeded
  /\ "metadata" \in DOMAIN Body
  /\ Body.metadata # <<>>

FrameRect(m, key) == m.frames[key].frame

(* C13: atlasDataGenerator returns exactly 24 frame entries keyed          *)
(* "<col>_<name>", col 0..23, with frame {x: col*24, y: 0, w: 24, h: 24};  *)
(* idle lists the keys of columns 0..3 and walk those of columns 4..9, in  *)
(* order; every animation key is a frame entry, and the frame rectangles   *)
(* tile the 576x24 size of meta without overlap.                           *)
C13_AtlasShape ==
  HasAtlas =>
    LET m == Body.metadata
        name == req.name
    IN /\ DOMAIN m.frames = {FrameKey(col, name) : col \in 0..23}
       /\ Cardinality(DOMAIN m.frames) = 24
       /\ \A col \in 0..23 :
            FrameRect(m, FrameKey(col, name)) =
              [x |-> col * 24, y |-> 0, w |-> 24, h |-> 24]
       /\ m.animations.idle = [k \in 1..4 |-> FrameKey(k - 1, name)]
       /\ m.animations.walk = [k \in 1..6 |-> FrameKey(k + 3, name)]
       /\ \A k \in 1..4 : m.animations.idle[k] \in DOMAIN m.frames
       /\ \A k \in 1..6 : m.animations.walk[k] \in DOMAIN m.frames
       /\ m.meta.size = [w |-> 576, h |-> 24]
       /\ \A x \in 0..(m.meta.size.w - 1) :
            Cardinality({key \in DOMAIN m.frames :
                           /\ FrameRect(m, key).x <= x
                           /\ x < FrameRect(m, key).x + FrameRect(m, key).w}) = 1
       /\ \A key \in DOMAIN m.frames :
            /\ FrameRect(m, key).y = 0
            /\ FrameRect(m, key).h = m.meta.size.h

C13_Witness ==
  /\ HasAtlas
  /\ req.name = "vita"
  /\ handler = "stripRoute"
  /\ FrameRect(Body.metadata, FrameKey(23, "vita")).x = 552

----------------------------------------------------------------------------
(* Properties of the detector and of the sort *)

Range(f) == {f[k] : k \in DOMAIN f}

(* positions a..b-1 are a maximal run of has-content positions of 0..n-1 *)
MaximalRun(has, n, a, b) ==
  /\ 0 <= a /\ a < b /\ b <= n
  /\ \A k \in a..(b - 1) : has[k]
  /\ a = 0 \/ ~has[a - 1]
  /\ b = n \/ ~has[b]

RowsGrouped == slicePc \notin {"off", "decode", "rows", "strips"}
ColumnsGrouped == RowsGrouped /\ slicePc # "columns"
Sorted == ColumnsGrouped /\ slicePc # "sort"

(* C14: a maximal run of has-content rows produces a row strip exactly     *)
(* when it is at least 5 rows long (4 discarded; 5 and 6 kept), and within *)
(* a strip a maximal run of has-content columns produces a box exactly     *)
(* when it is at least 5 columns long; also for runs that end at the last  *)
(* row or column.                                                          *)
C14_MinimumRun ==
  /\ RowsGrouped =>
       \A a \in 0..info.height, b \in 0..info.height :
         MaximalRun(rowHasContent, info.height, a, b) =>
           ([start |-> a, end |-> b] \in Range(rowStrips) <=> b - a >= 5)
  /\ ColumnsGrouped =>
       \A k \in 1..Len(rowStrips) :
         LET strip == rowStrips[k]
             cols == ColProjection(data, info.width, strip)
         IN \A a \in 0..info.width, b \in 0..info.width :
              MaximalRun(cols, info.width, a, b) =>
                ([x |-> a, y |-> strip.start, w |-> b - a,
                  h |-> strip.end - strip.start] \in Range(detectedSprites)
                 <=> b - a >= 5)

(* twice the distance of the vertical centres of two boxes *)
CentreDistance2(a, b) == Abs((2 * a.y + a.h) - (2 * b.y + b.h))

(* the list is in row-major order pair by pair: centres less than 24       *)
(* apart, the smaller x first; otherwise the higher box first              *)
PairwiseRowMajor(s) ==
  \A i \in 1..Len(s), j \in 1..Len(s) :
    i < j =>
      IF CentreDistance2(s[i], s[j]) < 48
      THEN s[i].x <= s[j].x
      ELSE s[i].y < s[j].y

RowsTransitive(s) ==
  \A a \in Range(s), b \in Range(s), c \in Range(s) :
    (CentreDistance2(a, b) < 48 /\ CentreDistance2(b, c) < 48)
      => CentreDistance2(a, c) < 48

Sign(n) == IF n < 0 THEN -1 ELSE IF n > 0 THEN 1 ELSE 0

C17_BoxesWellFormed ==
  ColumnsGrouped =>
    /\ \A k \in 1..Len(detectedSprites) :
         LET b == detectedSprites[k]
         IN /\ b.w > 0 /\ b.h > 0
            /\ b.x >= 0 /\ b.y >= 0
            /\ b.x + b.w <= info.width
            /\ b.y + b.h <= info.height
            /\ \E n \in 1..Len(rowStrips) :
                 /\ b.y = rowStrips[n].start
                 /\ b.y + b.h = rowStrips[n].end
    /\ \A k \in 1..Len(detectedSprites), n \in 1..Len(detectedSprites) :
         k # n =>
           LET a == detectedSprites[k]
               b == detectedSprites[n]
           IN IF a.y = b.y
              THEN a.x + a.w <= b.x \/ b.x + b.w <= a.x
              ELSE a.y + a.h <= b.y \/ b.y + b.h <= a.y

C17_Witness ==
  /\ slicePc = "done"
  /\ Len(detectedSprites) >= 12
  /\ \E k \in 1..Len(detectedSprites) :
       /\ detectedSprites[k].x + detectedSprites[k].w = info.width
       /\ detectedSprites[k].y + detectedSprites[k].h = info.height

(* the pipeline of the box at sorted position k was rejected by sharp *)
Rejected(k) == k \in sharpRejects

(* C18: when extracting or resizing one mapped box fails, that box's slot  *)
(* holds the blank frame and every other idle/walk slot keeps its own      *)
(* frame; the remaining boxes are still processed and smartSlice returns   *)
(* the complete 24-frame strip instead of raising.                         *)
C18_FailureAbsorbed ==
  /\ slicePc # "thrown"
  /\ slicePc = "done" =>
       /\ finalStrip.width = 576 /\ finalStrip.height = 24
       /\ DOMAIN finalStrip.ops = 0..23
       /\ \A i \in 0..9 :
            IF SourceOfSlot(i) \in SortedPositions /\ ~Rejected(SourceOfSlot(i))
            THEN FrameShows(SlotInput(i), SortedBox(SourceOfSlot(i)))
            ELSE IsBlankFrame(SlotInput(i))
       /\ \A i \in 10..23 : IsBlankFrame(SlotInput(i))

C18_Witness ==
  /\ slicePc = "done"
  /\ sharpRejects = {1, 6}
  /\ Len(detectedSprites) >= 8
  /\ FrameShows(SlotInput(0), SortedBox(0))
  /\ IsBlankFrame(SlotInput(1))
  /\ FrameShows(SlotInput(2), SortedBox(2))
  /\ IsBlankFrame(SlotInput(5))
  /\ FrameShows(SlotInput(6), SortedBox(7))

(* the response carries a sprite strip (not a concept preview) *)
ReturnsStrip == Succeeded /\ ~(handler = "sheetRoute" /\ req.mode = "concept")

(* C19: the dimensions of the produced strip are re-inspected before it is *)
(* returned, and no strip other than 576x24 is ever returned: a mismatch   *)
(* fails the request.                                                      *)
C19_DimensionsInspected ==
  ReturnsStrip =>
    /\ inspected
    /\ IsStrip576x24(Body.pngBase64)

(***************************************************************************)
(* SpriteLab, the client component: the two-step one (concept, then sheet) *)
(* and the single-step one.  A nullable piece of React state is <<>> for   *)
(* null and <<v>> for the value v.                                         *)
(***************************************************************************)
MaxInFlight == 2

UINull == <<>>
Held(v) == <<v>>
IsHeld(f) == f # UINull
Val(f) == f[1]

(* what the textarea may hold *)
UIPrompts == {"astronaut", "robot"}

DataUrl(b64) == <<"data:image/png;base64,", b64>>

MatchSuffix == " (MATCH THIS CHARACTER EXACTLY)"

(* useState initial values *)
InitialState ==
  [name |-> "mort", prompt |-> "astronaut",
   conceptImg |-> UINull, conceptPrompt |-> "",
   sheetRes |-> UINull, res |-> UINull,
   busy |-> FALSE, err |-> UINull]

UIInit ==
  /\ component \in {"twoStep", "oneStep"}
  /\ ui = InitialState
  /\ inflight = <<>>
  /\ downloaded = <<>>
  /\ sourceBuffer = <<>> /\ info = NoInfo /\ data = <<>>
  /\ rowHasContent = <<>> /\ rowStrips = <<>> /\ detectedSprites = <<>>
  /\ destFrames = NullFrames /\ finalStrip = NoStrip /\ slicePc = "off"
  /\ sharpRejects = {}
  /\ handler = "none" /\ apiKey = FALSE /\ req = <<>> /\ attempt = 0
  /\ raw = <<>> /\ results = <<>> /\ responses = <<>> /\ pc = "idle"
  /\ inspected = FALSE

Disabled_never == FALSE

(* disabled={busy} on the generate buttons *)
Disabled == ui.busy

(* the fetch is issued and the function waits for it *)
Fetch(fn, body, closure) ==
  inflight' = Append(inflight, [fn |-> fn, body |-> body, closure |-> closure])

generateConcept ==
  /\ component = "twoStep"
  /\ ~Disabled
  /\ Len(inflight) < MaxInFlight
  /\ ui' = [ui EXCEPT !.busy = TRUE, !.err = UINull,
                      !.conceptImg = UINull, !.sheetRes = UINull]
  /\ Fetch("generateConcept",
           [name |-> Undefined, prompt |-> <<ui.prompt>>, mode |-> "concept"],
           [prompt |-> ui.prompt])
  /\ UNCHANGED <<component, downloaded>>
  /\ UNCHANGED <<sliceVars, handlerVars>>

SheetPrompt_current == ui.prompt

(* the prompt generateSheet sends: the one stored with the concept *)
SheetPrompt == ui.conceptPrompt

generateSheet ==
  /\ component = "twoStep"
  /\ ~Disabled
  /\ Len(inflight) < MaxInFlight
  /\ IF ~IsHeld(ui.conceptImg)
     THEN UNCHANGED <<ui, inflight>>
     ELSE /\ ui' = [ui EXCEPT !.busy = TRUE, !.err = UINull,
                              !.sheetRes = UINull]
          /\ Fetch("generateSheet",
                   [name |-> ui.name,
                    prompt |-> <<SheetPrompt, MatchSuffix>>,
                    mode |-> "sheet"],
                   [prompt |-> SheetPrompt])
  /\ UNCHANGED <<component, downloaded>>
  /\ UNCHANGED <<sliceVars, handlerVars>>

generate ==
  /\ component = "oneStep"
  /\ ~Disabled
  /\ Len(inflight) < MaxInFlight
  /\ ui' = [ui EXCEPT !.busy = TRUE, !.err = UINull, !.res = UINull]
  /\ Fetch("generate",
           [name |-> ui.name, prompt |-> <<ui.prompt>>, mode |-> Undefined],
           [prompt |-> ui.prompt])
  /\ UNCHANGED <<component, downloaded>>
  /\ UNCHANGED <<sliceVars, handlerVars>>

(* the picture the server made for a prompt *)
Drawn(what, prompt) == <<what, prompt>>

(* the JSON of a 200 response to the body of a request *)
OkJson(body) ==
  IF body.mode = "concept"
  THEN [mode |-> "concept",
        pngBase64 |-> Base64(Drawn("preview", body.prompt))]
  ELSE IF body.mode = "sheet"
  THEN [mode |-> "sheet", name |-> body.name,
        pngBase64 |-> Base64(Drawn("strip", body.prompt)),
        metadata |-> IF Truthy(body.name)
                     THEN atlasDataGenerator(body.name, "1")
                     ELSE <<>>]
  ELSE [name |-> body.name,
        pngBase64 |-> Base64(Drawn("strip", body.prompt)),
        metadata |-> atlasDataGenerator(body.name, "0.32")]

(* how an awaited fetch can end: a 200 response, an error status with or   *)
(* without an error text, or a rejection (network failure, a body that is  *)
(* not JSON) with or without a message                                     *)
Outcomes(body) ==
  {[kind |-> "ok", json |-> OkJson(body)]}
    \cup {[kind |-> "status", json |-> [error |-> e]] :
            e \in {"Internal error", Undefined}}
    \cup {[kind |-> "throw", json |-> [message |-> m]] :
            m \in {"Failed to fetch", Undefined}}

(* the message handed to setErr by the catch block *)
ErrorMessage(o) ==
  IF o.kind = "status"
  THEN (IF Truthy(o.json.error) THEN o.json.error ELSE "Failed")
  ELSE (IF o.json.message # Undefined THEN o.json.message ELSE "Unknown error")

RemoveAt(seq, k) ==
  [j \in 1..(Len(seq) - 1) |-> IF j < k THEN seq[j] ELSE seq[j + 1]]

(* the rest of the async function after the awaited fetch: the success     *)
(* branch or the catch block, then finally setBusy(false)                  *)
Settle(k, o) ==
  LET q == inflight[k]
  IN /\ ui' = IF o.kind # "ok"
              THEN [ui EXCEPT !.err = Held(ErrorMessage(o)), !.busy = FALSE]
              ELSE IF q.fn = "generateConcept"
              THEN [ui EXCEPT !.conceptImg = Held(DataUrl(o.json.pngBase64)),
                              !.conceptPrompt = q.closure.prompt,
                              !.busy = FALSE]
              ELSE IF q.fn = "generateSheet"
              THEN [ui EXCEPT !.sheetRes = Held(o.json), !.busy = FALSE]
              ELSE [ui EXCEPT !.res = Held(o.json), !.busy = FALSE]
     /\ inflight' = RemoveAt(inflight, k)
     /\ UNCHANGED <<component, downloaded>>
     /\ UNCHANGED <<sliceVars, handlerVars>>

Settled ==
  \E k \in 1..Len(inflight) : \E o \in Outcomes(inflight[k].body) : Settle(k, o)

setName(c) ==
  /\ component \in {"twoStep", "oneStep"}
  /\ ui' = [ui EXCEPT !.name = c]
  /\ UNCHANGED <<component, inflight, downloaded>>
  /\ UNCHANGED <<sliceVars, handlerVars>>

setPrompt(p) ==
  /\ component \in {"twoStep", "oneStep"}
  /\ ui' = [ui EXCEPT !.prompt = p]
  /\ UNCHANGED <<component, inflight, downloaded>>
  /\ UNCHANGED <<sliceVars, handlerVars>>

(* the sheet the download buttons work on, and the name they give the file *)
HeldSheet == IF component = "twoStep" THEN ui.sheetRes ELSE ui.res

FileStem == IF component = "twoStep" THEN ui.name ELSE Val(ui.res).name

downloadFile(filename) == downloaded' = filename

downloadPng ==
  /\ component \in {"twoStep", "oneStep"}
  /\ IsHeld(HeldSheet)
  /\ downloadFile(<<FileStem, ".png">>)
  /\ UNCHANGED <<component, ui, inflight>>
  /\ UNCHANGED <<sliceVars, handlerVars>>

downloadMetadata ==
  /\ component \in {"twoStep", "oneStep"}
  /\ IsHeld(HeldSheet)
  /\ downloadFile(<<FileStem, ".json">>)
  /\ UNCHANGED <<component, ui, inflight>>
  /\ UNCHANGED <<sliceVars, handlerVars>>

UINext ==
  \/ generateConcept
  \/ generateSheet
  \/ generate
  \/ Settled
  \/ \E c \in CharacterNames : setName(c)
  \/ \E p \in UIPrompts : setPrompt(p)
  \/ downloadPng
  \/ downloadMetadata

UISpec == UIInit /\ [][UINext]_vars

(* a fetch that the server answers, or that fails, is eventually settled   *)
(* and the function that awaits it resumes                                 *)
UILiveSpec == UISpec /\ WF_vars(Settled)

(* C20: a generate action that starts a request sets busy; busy goes back  *)
(* to false whether the request succeeds, gets an error status or throws;  *)
(* while busy the generate buttons are disabled and at most one request is *)
(* in flight; the error message and the result of one action are never     *)
(* shown together.                                                         *)
C20_BusyDiscipline ==
  /\ [][Len(inflight') > Len(inflight) => ui'.busy]_vars
  /\ (ui.busy ~> ~ui.busy)
  /\ [](ui.busy => Disabled)
  /\ [](Len(inflight) <= 1)
  /\ [](ui.busy <=> inflight # <<>>)
  /\ [](IsHeld(ui.err) => ~IsHeld(ui.sheetRes) /\ ~IsHeld(ui.res))
  /\ [][Len(inflight') < Len(inflight) /\ Head(inflight).fn = "generateConcept"
          => ~(IsHeld(ui'.err) /\ IsHeld(ui'.conceptImg))]_vars

C20_Witness ==
  /\ component = "twoStep"
  /\ ~ui.busy /\ inflight = <<>>
  /\ IsHeld(ui.err)
  /\ IsHeld(ui.conceptImg)
  /\ ~IsHeld(ui.sheetRes)

(* the prompt text a held picture was made for: of the concept image (a   *)
(* data URL) and of the sheet result (a response)                          *)
ConceptMadeFor == Val(ui.conceptImg)[2][2][2][1]

SheetMadeFor == Val(ui.sheetRes).pngBase64[2][2]

StartsFetch(fn) ==
  /\ Len(inflight') = Len(inflight) + 1
  /\ inflight'[Len(inflight')].fn = fn

(* C21: in the two-step component a held sheet result comes with a held    *)
(* concept image and was requested with the prompt that produced that      *)
(* concept, not with the current text of the prompt field; no sheet        *)
(* request is issued without a concept image; starting a concept           *)
(* generation clears the sheet result.                                     *)
C21_SheetFollowsConcept ==
  /\ [](component = "twoStep" /\ IsHeld(ui.sheetRes) =>
          /\ IsHeld(ui.conceptImg)
          /\ SheetMadeFor = <<ConceptMadeFor, MatchSuffix>>
          /\ ui.conceptPrompt = ConceptMadeFor)
  /\ [][StartsFetch("generateSheet") =>
          /\ IsHeld(ui.conceptImg)
          /\ inflight'[Len(inflight')].body.prompt
               = <<ConceptMadeFor, MatchSuffix>>]_vars
  /\ [][StartsFetch("generateConcept") => ~IsHeld(ui'.sheetRes)]_vars

C21_Witness ==
  /\ component = "twoStep"
  /\ IsHeld(ui.sheetRes)
  /\ IsHeld(ui.conceptImg)
  /\ ui.prompt # ConceptMadeFor
  /\ SheetMadeFor = <<ConceptMadeFor, MatchSuffix>>

(* the character name a held sheet result was generated for: the name of   *)
(* its response, of its atlas image and of its frame keys                  *)
GeneratedFor(stem) ==
  LET sheet == Val(HeldSheet)
  IN /\ sheet.name = stem
     /\ sheet.metadata.meta.image = stem
     /\ DOMAIN sheet.metadata.frames = {FrameKey(col, stem) : col \in 0..23}

(* C22: a download (PNG or JSON) gets the character name the held sheet    *)
(* result was generated for as its file name, also when another name was   *)
(* selected after the sheet was generated.                                 *)
C22_DownloadName ==
  [][downloaded' # downloaded =>
       /\ IsHeld(HeldSheet)
       /\ downloaded'[2] \in {".png", ".json"}
       /\ GeneratedFor(downloaded'[1])]_vars

====
